---- MODULE Spec2Model ----
(***************************************************************************)
(* A model of generate_muzekkere.py: the template field-substitution       *)
(* engine (literal and pattern replacements over the markup text), the     *)
(* layout normalizer, the paragraph relocator, the archive rewrite and     *)
(* the top-level production run.                                           *)
(*                                                                         *)
(* Markup text is a sequence of symbols.  A symbol is either one tag of    *)
(* the markup (an atom, written as the tag's text) or one character.       *)
(* Patterns of the source are sequences of pattern elements (a symbol      *)
(* class with a repetition range, greedy or lazy) matched by a             *)
(* backtracking matcher with the priorities of Python's re module.         *)
(***************************************************************************)
EXTENDS Integers, Sequences, FiniteSets, TLC

VARIABLES pc, inp, mid, out, fs, tmp

vars == <<pc, inp, mid, out, fs, tmp>>

(***************************************************************************)
(* Results of the string transforms: a text, or a raised exception.        *)
(***************************************************************************)
Ok(text) == [ok |-> TRUE, text |-> text, err |-> "", n |-> 0]

Err(kind, count) == [ok |-> FALSE, text |-> <<>>, err |-> kind, n |-> count]

NoResult == [ok |-> FALSE, text |-> <<>>, err |-> "not run", n |-> 0]

(***************************************************************************)
(* Python str primitives over symbol sequences.                            *)
(***************************************************************************)
Min(S) == CHOOSE x \in S : \A y \in S : x <= y

Max(S) == CHOOSE x \in S : \A y \in S : x >= y

IsAt(t, old, i) ==
    /\ i >= 1
    /\ i + Len(old) - 1 <= Len(t)
    /\ \A j \in 1..Len(old) : t[i + j - 1] = old[j]

\* str.find from position i on, 1-based; 0 when absent (Python's -1).
FindFrom(t, old, i) ==
    LET at == {j \in i..(Len(t) + 1) : IsAt(t, old, j)}
    IN  IF at = {} THEN 0 ELSE Min(at)

str_find(t, old) == FindFrom(t, old, 1)

\* `old in t`
str_contains(t, old) == str_find(t, old) # 0

RECURSIVE CountFrom(_, _, _)
CountFrom(t, old, i) ==
    LET j == FindFrom(t, old, i)
    IN  IF j = 0 THEN 0 ELSE 1 + CountFrom(t, old, j + Len(old))

\* str.count: the number of non-overlapping occurrences, scanning from the
\* left; the empty string occurs len + 1 times.
str_count(t, old) ==
    IF old = <<>> THEN Len(t) + 1 ELSE CountFrom(t, old, 1)

\* str.replace(old, new, 1)
str_replace_first(t, old, new) ==
    LET i == str_find(t, old)
    IN  IF i = 0 THEN t
        ELSE SubSeq(t, 1, i - 1) \o new \o SubSeq(t, i + Len(old), Len(t))

RECURSIVE ReplaceAllFrom(_, _, _, _)
ReplaceAllFrom(t, old, new, i) ==
    LET j == FindFrom(t, old, i)
    IN  IF j = 0 THEN SubSeq(t, i, Len(t))
        ELSE SubSeq(t, i, j - 1) \o new \o ReplaceAllFrom(t, old, new, j + Len(old))

\* str.replace(old, new) for a non-empty old
str_replace_all(t, old, new) == ReplaceAllFrom(t, old, new, 1)

(***************************************************************************)
(* The markup's symbols.  Tags are atoms; characters outside the 7-bit     *)
(* range are named by their code point.                                    *)
(***************************************************************************)
T_OPEN == "<w:t xml:space=\"preserve\">"

T_OPEN_PLAIN == "<w:t>"

T_CLOSE == "</w:t>"

R_OPEN == "<w:r>"

R_OPEN_ATTR == "<w:r w:rsidR=\"00A1\">"

R_CLOSE == "</w:r>"

RPR_OPEN == "<w:rPr>"

RPR_CLOSE == "</w:rPr>"

BOLD == "<w:b/>"

P_OPEN == "<w:p>"

P_OPEN_ATTR == "<w:p w:rsidR=\"00B2\">"

P_CLOSE == "</w:p>"

PPR_OPEN == "<w:pPr>"

PPR_CLOSE == "</w:pPr>"

TAB == "<w:tab/>"

JC_BOTH == "<w:jc w:val=\"both\"/>"

JC_LEFT == "<w:jc w:val=\"left\"/>"

BODY_OPEN == "<w:body>"

BODY_CLOSE == "</w:body>"

SECT_PR == "<w:sectPr/>"

DOC_OPEN == "<w:document>"

DOC_CLOSE == "</w:document>"

Tags ==
    {T_OPEN, T_OPEN_PLAIN, T_CLOSE, R_OPEN, R_OPEN_ATTR, R_CLOSE, RPR_OPEN,
     RPR_CLOSE, BOLD, P_OPEN, P_OPEN_ATTR, P_CLOSE, PPR_OPEN, PPR_CLOSE, TAB,
     JC_BOTH, JC_LEFT, BODY_OPEN, BODY_CLOSE, SECT_PR, DOC_OPEN, DOC_CLOSE}

\* The characters of the fixed texts that lie outside ASCII.
C_CEDILLA == "U+00C7"

G_BREVE_UP == "U+011E"

I_DOT_UP == "U+0130"

O_UMLAUT_UP == "U+00D6"

S_CEDILLA_UP == "U+015E"

U_UMLAUT_UP == "U+00DC"

G_BREVE == "U+011F"

I_DOTLESS == "U+0131"

NonAscii ==
    {C_CEDILLA, G_BREVE_UP, I_DOT_UP, O_UMLAUT_UP, S_CEDILLA_UP, U_UMLAUT_UP,
     G_BREVE, I_DOTLESS}

(***************************************************************************)
(* Symbol classes of the patterns.  A class is a set of symbols or the     *)
(* complement of one.                                                      *)
(***************************************************************************)
In(S) == [neg |-> FALSE, set |-> S]

NotIn(S) == [neg |-> TRUE, set |-> S]

Matches(c, x) == (x \in c.set) # c.neg

\* \s
Space == In({" ", "\n", "\t"})

\* \d
Digit == In({"0", "1", "2", "3", "4", "5", "6", "7", "8", "9"})

\* [A-ZÇĞİÖŞÜ]
UpperTr ==
    In({"A", "B", "C", "D", "E", "F", "G", "H", "I", "J", "K", "L", "M", "N",
        "O", "P", "Q", "R", "S", "T", "U", "V", "W", "X", "Y", "Z",
        C_CEDILLA, G_BREVE_UP, I_DOT_UP, O_UMLAUT_UP, S_CEDILLA_UP, U_UMLAUT_UP})

\* . under re.DOTALL
AnySym == NotIn({})

\* [^<]: every tag starts with "<", no character symbol is "<"
NotLt == NotIn(Tags \cup {"<"})

\* <w:r(?:\s[^>]*)?> : a run opening, with or without attributes
RunOpen == In({R_OPEN, R_OPEN_ATTR})

\* <w:p(?:\s[^>]*)?> : a paragraph opening, with or without attributes
ParOpen == In({P_OPEN, P_OPEN_ATTR})

\* <w:p[^>]*> : any tag whose text starts with "<w:p"
TagFromWP == In({P_OPEN, P_OPEN_ATTR, PPR_OPEN})

(***************************************************************************)
(* Pattern elements: a literal (a fixed sequence of symbols), or a class   *)
(* repeated lo..hi times (hi < 0: unbounded), greedy or lazy.              *)
(***************************************************************************)
Rep(c, lo, hi, lazy) == [lit |-> <<>>, c |-> c, lo |-> lo, hi |-> hi, lazy |-> lazy]

One(c) == <<Rep(c, 1, 1, FALSE)>>

Star(c) == <<Rep(c, 0, -1, FALSE)>>

Plus(c) == <<Rep(c, 1, -1, FALSE)>>

LazyStar(c) == <<Rep(c, 0, -1, TRUE)>>

Times(c, k) == <<Rep(c, k, k, FALSE)>>

Lit(s) == <<[lit |-> s, c |-> In({}), lo |-> 1, hi |-> 1, lazy |-> FALSE]>>

(***************************************************************************)
(* The backtracking matcher.  MatchAt gives the boundaries of the first    *)
(* match in priority order of elements i.. at pos: the position at which   *)
(* each element starts, then the end; << >> when there is none.  A greedy  *)
(* element takes the largest count with which the rest matches, a lazy     *)
(* one the smallest.                                                       *)
(***************************************************************************)
\* how many symbols from pos on are in class c, at most hi when hi >= 0
RunLen(t, pos, c, hi) ==
    LET stop == {j \in pos..Len(t) : ~Matches(c, t[j])}
        n == IF stop = {} THEN Len(t) - pos + 1 ELSE Min(stop) - pos
    IN  IF hi >= 0 /\ n > hi THEN hi ELSE n

\* of the pairs <<k, r>> those with a match r, and among them the one with
\* the smallest k (lazy) or the largest (greedy)
Preferred(tries, lazy) ==
    LET good == {x \in tries : x[2] # <<>>}
        ks == {x[1] : x \in good}
    IN  IF good = {} THEN <<>>
        ELSE (CHOOSE x \in good : x[1] = (IF lazy THEN Min(ks) ELSE Max(ks)))[2]

\* whether element j can begin a match at q: a necessary condition, used to
\* leave out the tries that fail on their first symbol
CanStart(els, j, t, q) ==
    \/ j > Len(els)
    \/ /\ els[j].lit # <<>>
       /\ IsAt(t, els[j].lit, q)
    \/ /\ els[j].lit = <<>>
       /\ els[j].lo = 0 \/ (q <= Len(t) /\ Matches(els[j].c, t[q]))

RECURSIVE MatchAt(_, _, _, _)
MatchAt(els, i, t, pos) ==
    IF i > Len(els) THEN <<pos>>
    ELSE LET e == els[i]
         IN  IF e.lit # <<>>
             THEN IF IsAt(t, e.lit, pos)
                  THEN LET r == MatchAt(els, i + 1, t, pos + Len(e.lit))
                       IN  IF r = <<>> THEN <<>> ELSE <<pos>> \o r
                  ELSE <<>>
             ELSE LET n == RunLen(t, pos, e.c, e.hi)
                      ks == {k \in e.lo..n : CanStart(els, i + 1, t, pos + k)}
                      r == Preferred({<<k, MatchAt(els, i + 1, t, pos + k)>> : k \in ks},
                                     e.lazy)
                  IN  IF r = <<>> THEN <<>> ELSE <<pos>> \o r

\* re.search from pos on: the leftmost match
SearchFrom(els, t, pos) ==
    LET ps == {p \in pos..(Len(t) + 1) : CanStart(els, 1, t, p)}
    IN  Preferred({<<p, MatchAt(els, 1, t, p)>> : p \in ps}, TRUE)

MatchStart(r) == r[1]

MatchEnd(r) == r[Len(r)]

\* re.findall / re.finditer: the non-overlapping matches, left to right;
\* the search after match r goes on at its end, one further on if r is empty
RECURSIVE FindAllFrom(_, _, _)
MatchAndRest(els, t, r) ==
    IF r = <<>> THEN <<>>
    ELSE <<r>> \o FindAllFrom(els, t,
             IF MatchEnd(r) > MatchStart(r) THEN MatchEnd(r) ELSE MatchEnd(r) + 1)

FindAllFrom(els, t, pos) == MatchAndRest(els, t, SearchFrom(els, t, pos))

re_findall(pat, t) == FindAllFrom(pat.els, t, 1)

\* The text of group g of match r: groups are consecutive and cover the
\* pattern; pat.groups[g] is the element at which group g starts.
GroupStart(pat, r, g) == r[pat.groups[g]]

GroupEnd(pat, r, g) ==
    IF g = Len(pat.groups) THEN MatchEnd(r) ELSE r[pat.groups[g + 1]]

GroupText(pat, r, t, g) == SubSeq(t, GroupStart(pat, r, g), GroupEnd(pat, r, g) - 1)

\* A replacement template: items \g<k> (g = k) and literal text (g = 0).
Ref(k) == [g |-> k, lit |-> <<>>]

Txt(s) == [g |-> 0, lit |-> s]

RECURSIVE Expand(_, _, _, _, _)
Expand(pat, repl, r, t, j) ==
    IF j > Len(repl) THEN <<>>
    ELSE (IF repl[j].g = 0 THEN repl[j].lit ELSE GroupText(pat, r, t, repl[j].g))
         \o Expand(pat, repl, r, t, j + 1)

\* re.sub(pattern, replacement, text, count=1): the text with match r, if
\* there is one, replaced by the expanded template
SubstituteAt(pat, repl, t, r) ==
    IF r = <<>> THEN t
    ELSE SubSeq(t, 1, MatchStart(r) - 1) \o Expand(pat, repl, r, t, 1)
         \o SubSeq(t, MatchEnd(r), Len(t))

re_sub_once(pat, repl, t) == SubstituteAt(pat, repl, t, SearchFrom(pat.els, t, 1))

\* Pattern pieces shared by the field patterns.
\* </w:t>\s*</w:r>\s*<w:r(?:\s[^>]*)?>\s*<w:rPr>.*?</w:rPr>\s*<w:t xml:space="preserve">
NextRunText ==
    Lit(<<T_CLOSE>>) \o Star(Space) \o Lit(<<R_CLOSE>>) \o Star(Space)
    \o One(RunOpen) \o Star(Space) \o Lit(<<RPR_OPEN>>) \o LazyStar(AnySym)
    \o Lit(<<RPR_CLOSE>>) \o Star(Space) \o Lit(<<T_OPEN>>)

\* <w:t xml:space="preserve">\s*PARK\s+[A-ZÇĞİÖŞÜ]+
ParkLabel ==
    Lit(<<T_OPEN>>) \o Star(Space) \o Lit(<<"P", "A", "R", "K">>) \o Plus(Space)
    \o Plus(UpperTr)

YearDigits == 4

\* \d{4}/
YearSlash == Times(Digit, YearDigits) \o Lit(<<"/">>)

(***************************************************************************)
(* replace_company_case_number                                             *)
(***************************************************************************)
\* (<w:t ..>\s*PARK\s+[A-Z..]+\s+)(\d{4}/\d+)(</w:t>)
single_run_pattern ==
    LET g1 == ParkLabel \o Plus(Space)
        g2 == YearSlash \o Plus(Digit)
        g3 == Lit(<<T_CLOSE>>)
    IN  [els |-> g1 \o g2 \o g3,
         groups |-> <<1, Len(g1) + 1, Len(g1) + Len(g2) + 1>>]

\* (<w:t ..>\s*PARK\s+[A-Z..]+\s*</w:t>...<w:t ..>)(\d{4}/\d+)(</w:t>)
two_run_pattern ==
    LET g1 == ParkLabel \o Star(Space) \o NextRunText
        g2 == YearSlash \o Plus(Digit)
        g3 == Lit(<<T_CLOSE>>)
    IN  [els |-> g1 \o g2 \o g3,
         groups |-> <<1, Len(g1) + 1, Len(g1) + Len(g2) + 1>>]

\* (<w:t ..>\s*PARK\s+[A-Z..]+\s+)(\d{4}/)(</w:t>...<w:t ..>)(\d+)(</w:t>)
split_run_pattern ==
    LET g1 == ParkLabel \o Plus(Space)
        g2 == YearSlash
        g3 == NextRunText
        g4 == Plus(Digit)
        g5 == Lit(<<T_CLOSE>>)
    IN  [els |-> g1 \o g2 \o g3 \o g4 \o g5,
         groups |-> <<1, Len(g1) + 1, Len(g1) + Len(g2) + 1,
                      Len(g1) + Len(g2) + Len(g3) + 1,
                      Len(g1) + Len(g2) + Len(g3) + Len(g4) + 1>>]

\* A split that leaves the separator on the second part.
SplitAtSlash_keeps_separator(v) ==
    LET i == str_find(v, <<"/">>)
    IN  <<SubSeq(v, 1, i - 1), SubSeq(v, i, Len(v))>>

\* str.split("/", 1): the part before the first "/" and the part after it
\* (the caller unpacks two parts, so a value without "/" raises).
SplitAtSlash(v) ==
    LET i == str_find(v, <<"/">>)
    IN  <<SubSeq(v, 1, i - 1), SubSeq(v, i + 1, Len(v))>>

\* A dispatch that falls through to the next form on several matches too.
replace_company_case_number_falls_through(xml, case_value) ==
    LET single_matches == re_findall(single_run_pattern, xml)
        two_run_matches == re_findall(two_run_pattern, xml)
        split_matches == re_findall(split_run_pattern, xml)
    IN  IF Len(single_matches) = 1
        THEN Ok(re_sub_once(single_run_pattern,
                            <<Ref(1), Txt(case_value), Ref(3)>>, xml))
        ELSE IF Len(two_run_matches) = 1
        THEN Ok(re_sub_once(two_run_pattern,
                            <<Ref(1), Txt(case_value), Ref(3)>>, xml))
        ELSE IF Len(split_matches) # 1
        THEN Err("ValueError: expected once", Len(split_matches))
        ELSE LET year_part == SplitAtSlash(case_value)[1]
                 no_part == SplitAtSlash(case_value)[2]
             IN  Ok(re_sub_once(split_run_pattern,
                                <<Ref(1), Txt(year_part \o <<"/">>), Ref(3),
                                  Txt(no_part), Ref(5)>>, xml))

replace_company_case_number(xml, case_value) ==
    LET single_matches == re_findall(single_run_pattern, xml)
        two_run_matches == re_findall(two_run_pattern, xml)
        split_matches == re_findall(split_run_pattern, xml)
    IN  IF Len(single_matches) = 1
        THEN Ok(re_sub_once(single_run_pattern,
                            <<Ref(1), Txt(case_value), Ref(3)>>, xml))
        ELSE IF Len(single_matches) > 1
        THEN Err("ValueError: multiple candidates", Len(single_matches))
        ELSE IF Len(two_run_matches) = 1
        THEN Ok(re_sub_once(two_run_pattern,
                            <<Ref(1), Txt(case_value), Ref(3)>>, xml))
        ELSE IF Len(two_run_matches) > 1
        THEN Err("ValueError: multiple candidates", Len(two_run_matches))
        ELSE IF Len(split_matches) # 1
        THEN Err("ValueError: expected once", Len(split_matches))
        ELSE IF str_find(case_value, <<"/">>) = 0
        THEN Err("ValueError: not enough values to unpack", 1)
        ELSE LET year_part == SplitAtSlash(case_value)[1]
                 no_part == SplitAtSlash(case_value)[2]
             IN  Ok(re_sub_once(split_run_pattern,
                                <<Ref(1), Txt(year_part \o <<"/">>), Ref(3),
                                  Txt(no_part), Ref(5)>>, xml))

(***************************************************************************)
(* Markup built from runs.  A document is a paragraph whose runs are       *)
(* drawn from a small library: the three case-number forms and runs that   *)
(* hold only a label, only a number, or other text.                        *)
(***************************************************************************)
RunOf(open, text) ==
    <<open, RPR_OPEN, BOLD, RPR_CLOSE, T_OPEN>> \o text \o <<T_CLOSE, R_CLOSE>>

OldNumber == <<"2", "0", "2", "5", "/", "3", "5", "7">>

CaseFragment(kind) ==
    CASE kind = "single" ->
            RunOf(R_OPEN, <<"P", "A", "R", "K", " ", "A", " ">> \o OldNumber)
      [] kind = "two" ->
            RunOf(R_OPEN, <<"P", "A", "R", "K", " ", "A">>)
            \o <<"\n">> \o RunOf(R_OPEN_ATTR, OldNumber)
      [] kind = "split" ->
            RunOf(R_OPEN, <<"P", "A", "R", "K", " ", "H", " ", "2", "0", "2", "6", "/">>)
            \o RunOf(R_OPEN, <<"2", "3">>)
      [] kind = "label" ->
            RunOf(R_OPEN, <<" ", "P", "A", "R", "K", " ", "B", " ">>)
      [] kind = "number" ->
            RunOf(R_OPEN, <<"2", "0", "2", "4", "/", "5">>)
      [] OTHER ->
            RunOf(R_OPEN_ATTR, <<"a", " ", "1", "/", "2">>)

CaseKinds == {"single", "two", "split", "label", "number", "other"}

RECURSIVE Flatten(_)
Flatten(ss) == IF ss = <<>> THEN <<>> ELSE Head(ss) \o Flatten(Tail(ss))

CaseDoc(kinds) ==
    <<P_OPEN>> \o Flatten([i \in 1..Len(kinds) |-> CaseFragment(kinds[i])])
    \o <<P_CLOSE>>

NumRuns == 3

CaseValues ==
    {<<"2", "0", "2", "6", "/", "7", "7">>, <<"2", "0", "2", "7", "/", "8">>}

InitCase ==
    /\ pc = "start"
    /\ \E kinds \in [1..NumRuns -> CaseKinds], v \in CaseValues :
          inp = [xml |-> CaseDoc(kinds), case_value |-> v]
    /\ mid = NoResult
    /\ out = NoResult
    /\ fs = {}
    /\ tmp = {}

ReplaceCompanyCaseNumber ==
    /\ pc = "start"
    /\ out' = replace_company_case_number(inp.xml, inp.case_value)
    /\ pc' = "done"
    /\ UNCHANGED <<inp, mid, fs, tmp>>

NextCase == ReplaceCompanyCaseNumber

SpecCase == InitCase /\ [][NextCase]_vars

(***************************************************************************)
(* Observations on markup, independent of the matcher's templates.         *)
(***************************************************************************)
\* t with the symbols a..b-1 replaced by new
Splice(t, a, b, new) == SubSeq(t, 1, a - 1) \o new \o SubSeq(t, b, Len(t))

TextOpen == {T_OPEN, T_OPEN_PLAIN}

\* the position of the last text opening tag at or before pos
NodeStart(t, pos) ==
    LET at == {j \in 1..pos : t[j] \in TextOpen}
    IN  IF at = {} THEN 0 ELSE Max(at)

\* the position of the first </w:t> at or after pos
NodeEnd(t, pos) ==
    LET at == {j \in pos..Len(t) : t[j] = T_CLOSE}
    IN  IF at = {} THEN Len(t) + 1 ELSE Min(at)

\* the text of the text node around position pos
NodeAt(t, pos) == SubSeq(t, NodeStart(t, pos) + 1, NodeEnd(t, pos) - 1)

IsTag(x) == x \in Tags

\* the markup with every character removed: the tags in order
Skeleton(t) == SelectSeq(t, IsTag)

CountOf(pat, t) == Len(re_findall(pat, t))

FirstMatch(pat, t) == SearchFrom(pat.els, t, 1)

C4_SplitField ==
    pc = "done" =>
        LET c1 == CountOf(single_run_pattern, inp.xml)
            c2 == CountOf(two_run_pattern, inp.xml)
            c3 == CountOf(split_run_pattern, inp.xml)
            m1 == FirstMatch(single_run_pattern, inp.xml)
            m2 == FirstMatch(two_run_pattern, inp.xml)
            m3 == FirstMatch(split_run_pattern, inp.xml)
            v == inp.case_value
            year == SubSeq(v, 1, YearDigits + 1)
            no == SubSeq(v, YearDigits + 2, Len(v))
        IN  c1 + c2 + c3 = 1 =>
              /\ out.ok
              /\ Skeleton(out.text) = Skeleton(inp.xml)
              /\ c1 = 1 =>
                    LET p == GroupStart(single_run_pattern, m1, 2)
                        label == SubSeq(inp.xml, NodeStart(inp.xml, p) + 1, p - 1)
                    IN  /\ NodeAt(out.text, p) = label \o v
                        /\ SubSeq(out.text, 1, p - 1) = SubSeq(inp.xml, 1, p - 1)
              /\ c2 = 1 =>
                    LET p == GroupStart(two_run_pattern, m2, 2)
                    IN  /\ NodeAt(out.text, p) = v
                        /\ SubSeq(out.text, 1, p - 1) = SubSeq(inp.xml, 1, p - 1)
              /\ c3 = 1 =>
                    LET p == GroupStart(split_run_pattern, m3, 2)
                        q == GroupStart(split_run_pattern, m3, 4)
                        label == SubSeq(inp.xml, NodeStart(inp.xml, p) + 1, p - 1)
                        first == NodeAt(out.text, p)
                        second == NodeAt(out.text, q)
                        e == GroupEnd(split_run_pattern, m3, 4)
                    IN  /\ first = label \o year
                        /\ second = no
                        /\ SubSeq(first, Len(label) + 1, Len(first)) \o second = v
                        /\ SubSeq(out.text, 1, p - 1) = SubSeq(inp.xml, 1, p - 1)
                        /\ SubSeq(out.text, p + Len(year), q - 1)
                              = GroupText(split_run_pattern, m3, inp.xml, 3)
                        /\ SubSeq(out.text, q + Len(no), Len(out.text))
                              = SubSeq(inp.xml, e, Len(inp.xml))

\* The split form alone is present and has been replaced.
C4_Witness ==
    /\ pc = "done"
    /\ CountOf(single_run_pattern, inp.xml) = 0
    /\ CountOf(two_run_pattern, inp.xml) = 0
    /\ CountOf(split_run_pattern, inp.xml) = 1
    /\ out.ok
    /\ out.text # inp.xml

(***************************************************************************)
(* replace_by_pattern_once and the date fields                             *)
(***************************************************************************)
replace_by_pattern_once(text, pattern, replacement) ==
    LET matches == re_findall(pattern, text)
    IN  IF Len(matches) # 1
        THEN Err("ValueError: expected once", Len(matches))
        ELSE Ok(re_sub_once(pattern, replacement, text))

AnkaraMarker == <<T_OPEN, "A", "N", "K", "A", "R", "A", ",", " ", T_CLOSE>>

\* (<w:t ..>ANKARA, </w:t>...<w:t ..>)([^<]+)(</w:t>)
header_date_pattern ==
    LET g1 == Lit(SubSeq(AnkaraMarker, 1, Len(AnkaraMarker) - 1)) \o NextRunText
        g2 == Plus(NotLt)
        g3 == Lit(<<T_CLOSE>>)
    IN  [els |-> g1 \o g2 \o g3,
         groups |-> <<1, Len(g1) + 1, Len(g1) + Len(g2) + 1>>]

\* A header date that accepts the slash form alone.
replace_header_date_slash_only(xml, new_date) ==
    LET g1 == Lit(SubSeq(AnkaraMarker, 1, Len(AnkaraMarker) - 1)) \o NextRunText
        g2 == Times(Digit, 2) \o Lit(<<"/">>) \o Times(Digit, 2) \o Lit(<<"/">>)
              \o Times(Digit, 4)
        g3 == Lit(<<T_CLOSE>>)
    IN  replace_by_pattern_once(xml,
            [els |-> g1 \o g2 \o g3, groups |-> <<1, Len(g1) + 1, Len(g1) + Len(g2) + 1>>],
            <<Ref(1), Txt(new_date), Ref(3)>>)

replace_header_date(xml, new_date) ==
    replace_by_pattern_once(xml, header_date_pattern,
                            <<Ref(1), Txt(new_date), Ref(3)>>)

IlgiText == <<T_OPEN, I_DOT_UP, "l", "g", "i", T_CLOSE>>

EsasPhrase ==
    <<"E", "s", "a", "s", " ", "s", "a", "y", I_DOTLESS, "l", I_DOTLESS, " ",
      "y", "a", "z", I_DOTLESS, "n", I_DOTLESS, "z">>

\* (<w:p[^>]*>.*?<w:t ..>İlgi</w:t>.*?)(\d{2}/\d{2}/\d{4})(.*?Esas sayılı yazınız.*?</w:p>)
ilgi_date_pattern ==
    LET g1 == One(TagFromWP) \o LazyStar(AnySym) \o Lit(IlgiText) \o LazyStar(AnySym)
        g2 == Times(Digit, 2) \o Lit(<<"/">>) \o Times(Digit, 2) \o Lit(<<"/">>)
              \o Times(Digit, YearDigits)
        g3 == LazyStar(AnySym) \o Lit(EsasPhrase) \o LazyStar(AnySym) \o Lit(<<P_CLOSE>>)
    IN  [els |-> g1 \o g2 \o g3,
         groups |-> <<1, Len(g1) + 1, Len(g1) + Len(g2) + 1>>]

replace_ilgi_date(xml, new_date) ==
    replace_by_pattern_once(xml, ilgi_date_pattern,
                            <<Ref(1), Txt(new_date), Ref(3)>>)

(***************************************************************************)
(* Markup with dates: up to two header lines (ANKARA, then the date in    *)
(* the next run), a reference paragraph and a further run with a date.     *)
(***************************************************************************)
DotDate == <<"2", "0", ".", "1", "0", ".", "2", "0", "2", "5">>

SlashDate == <<"2", "0", "/", "1", "0", "/", "2", "0", "2", "5">>

DateIn(form) == IF form = "dot" THEN DotDate ELSE SlashDate

Para(runs) == <<P_OPEN, PPR_OPEN, JC_BOTH, PPR_CLOSE>> \o runs \o <<P_CLOSE>>

HeaderLine(form) ==
    IF form = "none" THEN <<>>
    ELSE Para(<<R_OPEN, RPR_OPEN, RPR_CLOSE, TAB, TAB, R_CLOSE>>
              \o RunOf(R_OPEN, <<"A", "N", "K", "A", "R", "A", ",", " ">>)
              \o RunOf(R_OPEN_ATTR, DateIn(form)))

IlgiLine(form) ==
    IF form = "none" THEN <<>>
    ELSE Para(RunOf(R_OPEN, <<I_DOT_UP, "l", "g", "i">>)
              \o RunOf(R_OPEN, <<":", " ">>
                     \o (CASE form = "slash" -> SlashDate
                           [] form = "dot" -> DotDate
                           [] form = "dot slash" -> DotDate \o <<" ">> \o SlashDate
                           [] OTHER -> SlashDate \o <<" ">> \o SlashDate)
                     \o <<" ">>)
              \o RunOf(R_OPEN, <<"t", "a", "r", "i", "h", "l", "i", " ", "v", "e">>)
              \o RunOf(R_OPEN, <<"2", "0", "2", "5", "/", "1", "1">>)
              \o RunOf(R_OPEN, <<" ">> \o EsasPhrase))

FreeDate(form) ==
    IF form = "none" THEN <<>> ELSE Para(RunOf(R_OPEN, <<"x", " ">> \o DateIn(form)))

DateForms == {"none", "dot", "slash"}

IlgiForms == {"none", "dot", "slash", "dot slash", "slash slash"}

DateDoc(h1, h2, ilgi, free) ==
    HeaderLine(h1) \o HeaderLine(h2) \o IlgiLine(ilgi) \o FreeDate(free)

NewDates ==
    {<<"0", "1", "/", "1", "2", "/", "2", "0", "2", "5">>,
     <<"1", "5", "/", "0", "1", "/", "2", "0", "2", "6">>}

InitDate ==
    /\ pc = "start"
    /\ \E h1 \in DateForms, h2 \in DateForms, ilgi \in IlgiForms, free \in DateForms,
          d \in NewDates :
          inp = [xml |-> DateDoc(h1, h2, ilgi, free), new_date |-> d,
                 h1 |-> h1, h2 |-> h2, ilgi |-> ilgi, free |-> free]
    /\ mid = NoResult
    /\ out = NoResult
    /\ fs = {}
    /\ tmp = {}

ReplaceHeaderDate ==
    /\ pc = "start"
    /\ out' = replace_header_date(inp.xml, inp.new_date)
    /\ pc' = "header done"
    /\ UNCHANGED <<inp, mid, fs, tmp>>

ReplaceIlgiDate ==
    /\ pc = "start"
    /\ out' = replace_ilgi_date(inp.xml, inp.new_date)
    /\ pc' = "ilgi done"
    /\ UNCHANGED <<inp, mid, fs, tmp>>

NextDate == ReplaceHeaderDate \/ ReplaceIlgiDate

SpecDate == InitDate /\ [][NextDate]_vars

\* C3 as stated: an anchor date in the dot form and one in the slash form
\* are both accepted and replaced by the new date, and markup that contains
\* both forms at the same time raises.
C3_DualDate ==
    pc = "header done" =>
        LET hasDot == str_contains(inp.xml, DotDate)
            hasSlash == str_contains(inp.xml, SlashDate)
        IN  /\ inp.h1 = "dot" /\ inp.h2 = "none" /\ ~hasSlash =>
                  /\ out.ok
                  /\ str_contains(out.text, inp.new_date)
                  /\ ~str_contains(out.text, DotDate)
            /\ inp.h1 = "slash" /\ inp.h2 = "none" /\ ~hasDot =>
                  /\ out.ok
                  /\ str_contains(out.text, inp.new_date)
                  /\ ~str_contains(out.text, SlashDate)
            /\ hasDot /\ hasSlash => ~out.ok

\* C3 as amended: replace_header_date succeeds exactly when the markup has
\* one header line (ANKARA, then the date run), whatever the form of its
\* date and whatever dates stand elsewhere; it then puts the new date in
\* place of that date and changes nothing else.  replace_ilgi_date
\* succeeds exactly when its pattern matches once, which takes a date in
\* the slash form in the reference paragraph, and replaces one slash date
\* and no dot date.
C3_AnchorDateOnce ==
    /\ pc = "header done" =>
          LET anchors == (IF inp.h1 = "none" THEN 0 ELSE 1)
                         + (IF inp.h2 = "none" THEN 0 ELSE 1)
              old == DateIn(IF inp.h1 = "none" THEN inp.h2 ELSE inp.h1)
              m == str_find(inp.xml, AnkaraMarker)
              p == Min({j \in (m + Len(AnkaraMarker))..Len(inp.xml) :
                          inp.xml[j] \in TextOpen}) + 1
          IN  /\ out.ok <=> anchors = 1
              /\ ~out.ok => out.n = anchors /\ out.text = <<>>
              /\ out.ok =>
                    /\ out.text = Splice(inp.xml, p, p + Len(old), inp.new_date)
                    /\ NodeAt(out.text, p) = inp.new_date
                    /\ NodeAt(inp.xml, p) = old
    /\ pc = "ilgi done" =>
          /\ out.ok <=> inp.ilgi \in {"slash", "dot slash", "slash slash"}
          /\ out.ok =>
                /\ str_count(out.text, DotDate) = str_count(inp.xml, DotDate)
                /\ str_count(out.text, SlashDate) = str_count(inp.xml, SlashDate) - 1
                /\ str_count(out.text, inp.new_date) = 1
                /\ Skeleton(out.text) = Skeleton(inp.xml)

\* A header date in the dot form is replaced although the markup also holds
\* a date in the slash form.
C3_Witness ==
    /\ pc = "header done"
    /\ inp.h1 = "dot"
    /\ inp.h2 = "none"
    /\ inp.ilgi = "slash"
    /\ out.ok
    /\ str_contains(out.text, SlashDate)

(***************************************************************************)
(* The layout normalizer                                                   *)
(***************************************************************************)
\* the positions of the run openings before position limit
RunOpenings(xml, limit) == {j \in 1..(limit - 1) : Matches(RunOpen, xml[j])}

\* A tightening that removes every tab of the spacer run.
tighten_header_date_position_every_tab(xml) ==
    LET marker_idx == str_find(xml, AnkaraMarker)
        run_matches == RunOpenings(xml, marker_idx)
        ankara_run_start == Max(run_matches)
        spacer_run_start == Max(run_matches \ {ankara_run_start})
        spacer_run == SubSeq(xml, spacer_run_start, ankara_run_start - 1)
    IN  IF marker_idx = 0 THEN Err("ValueError: header marker missing", 0)
        ELSE IF Cardinality(run_matches) < 2
        THEN Err("ValueError: header runs missing", Cardinality(run_matches))
        ELSE IF ~str_contains(spacer_run, <<TAB>>)
        THEN Err("ValueError: header tab missing", 0)
        ELSE Ok(SubSeq(xml, 1, spacer_run_start - 1)
                \o str_replace_all(spacer_run, <<TAB>>, <<>>)
                \o SubSeq(xml, ankara_run_start, Len(xml)))

tighten_header_date_position(xml) ==
    LET marker_idx == str_find(xml, AnkaraMarker)
        run_matches == RunOpenings(xml, marker_idx)
        ankara_run_start == Max(run_matches)
        spacer_run_start == Max(run_matches \ {ankara_run_start})
        spacer_run == SubSeq(xml, spacer_run_start, ankara_run_start - 1)
        new_spacer_run == str_replace_first(spacer_run, <<TAB>>, <<>>)
    IN  IF marker_idx = 0 THEN Err("ValueError: header marker missing", 0)
        ELSE IF Cardinality(run_matches) < 2
        THEN Err("ValueError: header runs missing", Cardinality(run_matches))
        ELSE IF ~str_contains(spacer_run, <<TAB>>)
        THEN Err("ValueError: header tab missing", 0)
        ELSE Ok(SubSeq(xml, 1, spacer_run_start - 1) \o new_spacer_run
                \o SubSeq(xml, ankara_run_start, Len(xml)))

\* A normalization that rewrites the first justified marker only.
normalize_justified_paragraphs_first_only(xml) ==
    str_replace_first(xml, <<JC_BOTH>>, <<JC_LEFT>>)

normalize_justified_paragraphs(xml) ==
    str_replace_all(xml, <<JC_BOTH>>, <<JC_LEFT>>)

(***************************************************************************)
(* Header markup: a paragraph of runs that hold tabs, then (or not) the    *)
(* ANKARA run and the date run, then a second paragraph.                   *)
(***************************************************************************)
MaxTabs == 2

RECURSIVE Tabs(_)
Tabs(k) == IF k = 0 THEN <<>> ELSE <<TAB>> \o Tabs(k - 1)

TabRun(k) == <<R_OPEN, RPR_OPEN, RPR_CLOSE>> \o Tabs(k) \o <<R_CLOSE>>

JcMark(jc) ==
    CASE jc = "both" -> <<PPR_OPEN, JC_BOTH, PPR_CLOSE>>
      [] jc = "left" -> <<PPR_OPEN, JC_LEFT, PPR_CLOSE>>
      [] OTHER -> <<>>

LayoutDoc(jc, tabs, marker, tail) ==
    <<P_OPEN>> \o JcMark(jc)
    \o Flatten([i \in 1..Len(tabs) |-> TabRun(tabs[i])])
    \o (IF marker
        THEN RunOf(R_OPEN_ATTR, <<"A", "N", "K", "A", "R", "A", ",", " ">>)
             \o RunOf(R_OPEN, DotDate)
        ELSE RunOf(R_OPEN, <<"A", "N", "K", "A", "R", "A">>))
    \o <<P_CLOSE>>
    \o (IF tail
        THEN <<P_OPEN, PPR_OPEN, JC_BOTH, PPR_CLOSE>> \o TabRun(1)
             \o RunOf(R_OPEN, <<"A", "N", "K", "A", "R", "A", ",", " ">>)
             \o <<P_CLOSE>>
        ELSE <<>>)

InitLayout ==
    /\ pc = "start"
    /\ \E jc \in {"both", "left", "none"}, k \in 0..NumRuns, marker \in BOOLEAN,
          tail \in BOOLEAN :
          \E tabs \in [1..k -> 0..MaxTabs] :
             inp = [xml |-> LayoutDoc(jc, tabs, marker, tail)]
    /\ mid = NoResult
    /\ out = NoResult
    /\ fs = {}
    /\ tmp = {}

Tighten ==
    /\ pc = "start"
    /\ out' = tighten_header_date_position(inp.xml)
    /\ pc' = "tightened"
    /\ UNCHANGED <<inp, mid, fs, tmp>>

\* tightening applied to the successful result of a tightening
TightenAgain ==
    /\ pc = "tightened"
    /\ out.ok
    /\ mid' = out
    /\ out' = tighten_header_date_position(out.text)
    /\ pc' = "tightened twice"
    /\ UNCHANGED <<inp, fs, tmp>>

Normalize ==
    /\ pc = "start"
    /\ out' = Ok(normalize_justified_paragraphs(inp.xml))
    /\ pc' = "normalized"
    /\ UNCHANGED <<inp, mid, fs, tmp>>

NormalizeAgain ==
    /\ pc = "normalized"
    /\ mid' = out
    /\ out' = Ok(normalize_justified_paragraphs(out.text))
    /\ pc' = "normalized twice"
    /\ UNCHANGED <<inp, fs, tmp>>

NextLayout == Tighten \/ TightenAgain \/ Normalize \/ NormalizeAgain

SpecLayout == InitLayout /\ [][NextLayout]_vars

\* The spacer run as the claim words it: from the second-to-last run
\* opening before the first header marker to the last one.
HasSpacer(xml) ==
    /\ str_contains(xml, AnkaraMarker)
    /\ Cardinality(RunOpenings(xml, str_find(xml, AnkaraMarker))) >= 2

SpacerEnd(xml) == Max(RunOpenings(xml, str_find(xml, AnkaraMarker)))

SpacerStart(xml) ==
    Max(RunOpenings(xml, str_find(xml, AnkaraMarker)) \ {SpacerEnd(xml)})

TabsAt(xml) == {j \in SpacerStart(xml)..(SpacerEnd(xml) - 1) : xml[j] = TAB}

\* C9 as stated: tightening succeeds only if the spacer run holds exactly
\* one tab-stop.
C9_ExactlyOneTab ==
    pc = "tightened" /\ out.ok => Cardinality(TabsAt(inp.xml)) = 1

\* C9 as amended: tightening succeeds exactly when the header marker is
\* present, at least two run openings precede it and the spacer run holds
\* at least one tab-stop; the result is the input without the first
\* tab-stop of the spacer run, every other symbol unchanged.
C9_TightenRemovesFirstTab ==
    pc = "tightened" =>
        IF HasSpacer(inp.xml) /\ TabsAt(inp.xml) # {}
        THEN LET first == Min(TabsAt(inp.xml))
             IN  /\ out.ok
                 /\ out.text = Splice(inp.xml, first, first + 1, <<>>)
                 /\ Len(out.text) = Len(inp.xml) - 1
                 /\ Cardinality(TabsAt(out.text)) = Cardinality(TabsAt(inp.xml)) - 1
        ELSE ~out.ok /\ out.text = <<>>

\* A spacer run with two tab-stops has been tightened.
C9_Witness ==
    /\ pc = "tightened"
    /\ out.ok
    /\ Cardinality(TabsAt(inp.xml)) = 2
    /\ Cardinality(TabsAt(out.text)) = 1

\* C10 as stated: both tweaks are idempotent, the second application gives
\* what the first gave.
C10_BothIdempotent ==
    /\ pc = "normalized twice" => out = mid
    /\ pc = "tightened twice" => out = mid

\* C10 as amended: alignment normalization is idempotent; tightening is
\* not: applied to its own successful result it raises when the spacer run
\* held one tab-stop and removes a further tab-stop otherwise.
C10_NormalizeIdempotentTightenNot ==
    /\ pc = "normalized twice" =>
          /\ out = mid
          /\ ~str_contains(out.text, <<JC_BOTH>>)
          /\ Len(out.text) = Len(inp.xml)
    /\ pc = "tightened twice" =>
          /\ out # mid
          /\ IF Cardinality(TabsAt(inp.xml)) = 1
             THEN ~out.ok
             ELSE /\ out.ok
                  /\ Len(out.text) = Len(mid.text) - 1
                  /\ Cardinality(TabsAt(out.text)) = Cardinality(TabsAt(inp.xml)) - 2

\* A second tightening has removed a second tab-stop.
C10_Witness ==
    /\ pc = "tightened twice"
    /\ out.ok
    /\ mid.ok
    /\ Len(out.text) = Len(inp.xml) - 2

(***************************************************************************)
(* move_park_teknik_to_top                                                 *)
(***************************************************************************)
\* (<w:body>)(.*?)(</w:body>)
body_pattern ==
    [els |-> Lit(<<BODY_OPEN>>) \o LazyStar(AnySym) \o Lit(<<BODY_CLOSE>>),
     groups |-> <<1, 2, 3>>]

\* (<w:p(?:\s[^>]*)?>.*?</w:p>)
paragraph_pattern ==
    [els |-> One(ParOpen) \o LazyStar(AnySym) \o Lit(<<P_CLOSE>>), groups |-> <<1>>]

\* re.split with one capturing group: the text before the first match, then
\* for each match the match and the text up to the next match or the end.
split_at(ms, t) ==
    [i \in 1..(2 * Len(ms) + 1) |->
       IF i % 2 = 0
       THEN SubSeq(t, MatchStart(ms[i \div 2]), MatchEnd(ms[i \div 2]) - 1)
       ELSE SubSeq(t,
                   IF i = 1 THEN 1 ELSE MatchEnd(ms[(i - 1) \div 2]),
                   IF i = 2 * Len(ms) + 1 THEN Len(t)
                   ELSE MatchStart(ms[(i + 1) \div 2]) - 1)]

re_split(pat, t) == split_at(re_findall(pat, t), t)

park_marker ==
    <<T_OPEN, "P", "A", "R", "K", " ", "T", "E", "K", "N", I_DOT_UP, "K", T_CLOSE>>

SayiWord == <<"S", "a", "y", I_DOTLESS>>

\* '<w:t xml:space="preserve">Sayı</w:t>' in p or ">Sayı<" in p
HasSayi(p) ==
    \/ str_contains(p, <<T_OPEN>> \o SayiWord \o <<T_CLOSE>>)
    \/ \E j \in 1..Len(p) :
          /\ p[j] \in Tags \cup {">"}
          /\ IsAt(p, SayiWord, j + 1)
          /\ j + Len(SayiWord) + 1 <= Len(p)
          /\ p[j + Len(SayiWord) + 1] \in Tags \cup {"<"}

\* list.pop(i) and list.insert(i, x), i counted from 0
ListWithout(list, i) == SubSeq(list, 1, i) \o SubSeq(list, i + 2, Len(list))

ListInsert(list, i, x) ==
    LET k == IF i > Len(list) THEN Len(list) ELSE i
    IN  SubSeq(list, 1, k) \o <<x>> \o SubSeq(list, k + 1, Len(list))

\* An insertion index that is not adjusted for the removed paragraph.
insert_at_unadjusted(park_idx, sayi_idx) == sayi_idx

\* An insertion at the top of the body whatever the anchor.
insert_at_top(park_idx, sayi_idx) ==
    IF park_idx = sayi_idx - 1 /\ park_idx = 0 THEN sayi_idx - 1 ELSE 0

\* the index, counted from 0, at which the removed paragraph is put back
insert_at(park_idx, sayi_idx) ==
    IF park_idx > sayi_idx THEN sayi_idx
    ELSE IF sayi_idx - 1 > 0 THEN sayi_idx - 1 ELSE 0

\* lines 194-226: the paragraphs of the body, the one to move and the anchor
move_paragraphs(xml, body_start, body_end, parts, paragraphs) ==
    LET park_indices == {i \in 0..(Len(paragraphs) - 1) :
                            str_contains(paragraphs[i + 1], park_marker)}
        sayi_indices == {i \in 0..(Len(paragraphs) - 1) : HasSayi(paragraphs[i + 1])}
        park_idx == Min(park_indices)
        sayi_idx == Min(sayi_indices)
        moved == ListInsert(ListWithout(paragraphs, park_idx),
                            insert_at(park_idx, sayi_idx), paragraphs[park_idx + 1])
        rebuilt_parts == [i \in 1..Len(parts) |->
                            IF i % 2 = 0 THEN moved[i \div 2] ELSE parts[i]]
    IN  IF paragraphs = <<>> THEN Err("ValueError: paragraphs missing", 0)
        ELSE IF Cardinality(park_indices) # 1
        THEN Err("ValueError: expected once", Cardinality(park_indices))
        ELSE IF sayi_indices = {} THEN Err("ValueError: anchor missing", 0)
        ELSE IF park_idx = sayi_idx THEN Ok(xml)
        ELSE Ok(SubSeq(xml, 1, body_start - 1) \o Flatten(rebuilt_parts)
                \o SubSeq(xml, body_end, Len(xml)))

\* lines 189-190: parts = re.split(...), paragraphs = parts[1::2]
move_in_parts(xml, body_start, body_end, parts) ==
    move_paragraphs(xml, body_start, body_end, parts,
                    [i \in 1..(Len(parts) \div 2) |-> parts[2 * i]])

\* lines 184-189: the body found, its content split at the paragraphs
move_in_body(xml, body_match) ==
    IF body_match = <<>> THEN Err("ValueError: body missing", 0)
    ELSE move_in_parts(xml, GroupStart(body_pattern, body_match, 2),
                       GroupEnd(body_pattern, body_match, 2),
                       re_split(paragraph_pattern,
                                GroupText(body_pattern, body_match, xml, 2)))

move_park_teknik_to_top(xml) ==
    move_in_body(xml, SearchFrom(body_pattern.els, xml, 1))

(***************************************************************************)
(* Bodies of numbered paragraphs.  A paragraph holds the moved marker,     *)
(* the anchor marker, both or neither; one kind holds a nested paragraph,  *)
(* which the pattern ends at the inner closing tag.                        *)
(***************************************************************************)
NumParas == 4

Numeral(i) == <<"#", CHOOSE d \in Digit.set : d = ToString(i)>>

ParkRun == RunOf(R_OPEN, SubSeq(park_marker, 2, Len(park_marker) - 1))

SayiRun == RunOf(R_OPEN_ATTR, SayiWord)

\* the part of paragraph i that the paragraph pattern matches
ParaText(kind, i) ==
    CASE kind = "park" -> <<P_OPEN>> \o RunOf(R_OPEN, Numeral(i)) \o ParkRun \o <<P_CLOSE>>
      [] kind = "sayi" -> <<P_OPEN_ATTR>> \o SayiRun \o RunOf(R_OPEN, Numeral(i)) \o <<P_CLOSE>>
      [] kind = "both" ->
            <<P_OPEN>> \o SayiRun \o RunOf(R_OPEN, Numeral(i)) \o ParkRun \o <<P_CLOSE>>
      [] kind = "nested" ->
            <<P_OPEN, R_OPEN, P_OPEN>> \o RunOf(R_OPEN, Numeral(i)) \o <<P_CLOSE>>
      [] OTHER -> <<P_OPEN>> \o RunOf(R_OPEN, Numeral(i)) \o <<P_CLOSE>>

\* what follows paragraph i up to the next paragraph
GapAfter(kind, i) ==
    (IF kind = "nested" THEN <<R_CLOSE, P_CLOSE>> ELSE <<>>)
    \o (IF i % 2 = 1 THEN <<"\n">> ELSE <<>>)

ParaKinds == {"park", "sayi", "both", "nested", "plain"}

\* the document whose paragraph slots hold the paragraphs order[1], order[2], ...
BodyDoc(kinds, order) ==
    <<DOC_OPEN, BODY_OPEN, "\n">>
    \o Flatten([i \in 1..Len(kinds) |->
                   ParaText(kinds[order[i]], order[i]) \o GapAfter(kinds[i], i)])
    \o <<SECT_PR, BODY_CLOSE, DOC_CLOSE>>

Identity(n) == [i \in 1..n |-> i]

InitMove ==
    /\ pc = "start"
    /\ \E kinds \in [1..NumParas -> ParaKinds] :
          inp = [xml |-> BodyDoc(kinds, Identity(NumParas)), kinds |-> kinds]
    /\ mid = NoResult
    /\ out = NoResult
    /\ fs = {}
    /\ tmp = {}

Move ==
    /\ pc = "start"
    /\ out' = move_park_teknik_to_top(inp.xml)
    /\ pc' = "moved"
    /\ UNCHANGED <<inp, mid, fs, tmp>>

\* relocation applied to the successful result of a relocation
MoveAgain ==
    /\ pc = "moved"
    /\ out.ok
    /\ mid' = out
    /\ out' = move_park_teknik_to_top(out.text)
    /\ pc' = "moved twice"
    /\ UNCHANGED <<inp, fs, tmp>>

NextMove == Move \/ MoveAgain

SpecMove == InitMove /\ [][NextMove]_vars

ParkParas(kinds) == {i \in 1..Len(kinds) : kinds[i] \in {"park", "both"}}

SayiParas(kinds) == {i \in 1..Len(kinds) : kinds[i] \in {"sayi", "both"}}

\* the paragraphs in their order with paragraph p taken out and put back
\* right before paragraph a
MovedBefore(n, p, a) ==
    LET others == SelectSeq(Identity(n), LAMBDA i : i # p)
        k == CHOOSE j \in 1..Len(others) : others[j] = a
    IN  SubSeq(others, 1, k - 1) \o <<p>> \o SubSeq(others, k, Len(others))

\* C7: with one paragraph holding the moved marker and the first paragraph
\* holding the anchor marker another one, the result has the moved
\* paragraph right before the anchor, the other paragraphs in their order,
\* each paragraph once, and the text between the paragraph slots and
\* outside the body unchanged.
C7_MovedBeforeAnchor ==
    pc = "moved" =>
        LET P == ParkParas(inp.kinds)
            S == SayiParas(inp.kinds)
        IN  Cardinality(P) = 1 /\ S # {} /\ Min(S) \notin P =>
              LET p == Min(P)
                  a == Min(S)
                  at(i) == str_find(out.text, ParaText(inp.kinds[i], i))
              IN  /\ out.ok
                  /\ out.text = BodyDoc(inp.kinds, MovedBefore(NumParas, p, a))
                  /\ \A i \in 1..NumParas :
                        str_count(out.text, ParaText(inp.kinds[i], i)) = 1
                  /\ at(p) < at(a)
                  /\ \A i \in 1..NumParas : ~(at(p) < at(i) /\ at(i) < at(a))
                  /\ \A i, j \in (1..NumParas) \ {p} : i < j => at(i) < at(j)
                  /\ Len(out.text) = Len(inp.xml)

\* The moved paragraph started after the anchor, with a paragraph between.
C7_Witness ==
    /\ pc = "moved"
    /\ out.ok
    /\ Cardinality(ParkParas(inp.kinds)) = 1
    /\ SayiParas(inp.kinds) # {}
    /\ Min(ParkParas(inp.kinds)) > Min(SayiParas(inp.kinds)) + 1
    /\ out.text # inp.xml

\* C8: when the moved paragraph already stands right before the anchor the
\* text is returned unchanged, and relocation applied to the result of a
\* relocation returns that result.
C8_Idempotent ==
    /\ pc = "moved" =>
          LET P == ParkParas(inp.kinds)
              S == SayiParas(inp.kinds)
          IN  Cardinality(P) = 1 /\ S # {} /\ Min(S) = Min(P) + 1 =>
                 out.ok /\ out.text = inp.xml
    /\ pc = "moved twice" => out.ok /\ out.text = mid.text

\* A relocation that changed the text has been applied again.
C8_Witness ==
    /\ pc = "moved twice"
    /\ mid.text # inp.xml
    /\ out.ok
    /\ out.text = mid.text

(***************************************************************************)
(* replace_exact_once                                                      *)
(***************************************************************************)
replace_exact_once(text, old, new) ==
    LET count == str_count(text, old)
    IN  IF count # 1
        THEN Err("ValueError: expected once", count)
        ELSE Ok(str_replace_first(text, old, new))

(***************************************************************************)
(* Literal replacement on arbitrary short texts.                           *)
(***************************************************************************)
MaxLen == 3

LitAlphabet == {"a", "b"}

SeqsUpTo(S, n) == UNION {[1..k -> S] : k \in 0..n}

LitInputs ==
    [text : SeqsUpTo(LitAlphabet, MaxLen),
     old  : SeqsUpTo(LitAlphabet, MaxLen - 1),
     new  : SeqsUpTo(LitAlphabet, MaxLen - 2)]

InitLit ==
    /\ pc = "start"
    /\ inp \in LitInputs
    /\ mid = NoResult
    /\ out = NoResult
    /\ fs = {}
    /\ tmp = {}

ReplaceExactOnce ==
    /\ pc = "start"
    /\ out' = replace_exact_once(inp.text, inp.old, inp.new)
    /\ pc' = "done"
    /\ UNCHANGED <<inp, mid, fs, tmp>>

NextLit == ReplaceExactOnce

SpecLit == InitLit /\ [][NextLit]_vars

\* The positions at which old occurs in text, overlapping ones included.
Occurrences(text, old) == {i \in 1..(Len(text) + 1) : IsAt(text, old, i)}

\* C1: replace_exact_once succeeds exactly when old occurs once in the text
\* (overlapping occurrences counted), the result is the text with that
\* occurrence replaced and the length changes by len(new) - len(old);
\* with 0 or at least 2 occurrences it raises and returns no text.
C1_ExactlyOnceOverlapping ==
    pc = "done" =>
        LET occ == Occurrences(inp.text, inp.old)
        IN  IF Cardinality(occ) = 1
            THEN LET i == CHOOSE j \in occ : TRUE
                 IN  /\ out.ok
                     /\ out.text = SubSeq(inp.text, 1, i - 1) \o inp.new
                            \o SubSeq(inp.text, i + Len(inp.old), Len(inp.text))
                     /\ Len(out.text) - Len(inp.text) = Len(inp.new) - Len(inp.old)
            ELSE ~out.ok /\ out.text = <<>>

(***************************************************************************)
(* replace_court_case_number, replace_court_number                         *)
(***************************************************************************)
TarihliVe == <<"t", "a", "r", "i", "h", "l", "i", " ", "v", "e">>

\* (<w:t ..>\s*tarihli ve\s*</w:t>...<w:t ..>)(\d{4}/\d+)(</w:t>)
court_case_pattern ==
    LET g1 == Lit(<<T_OPEN>>) \o Star(Space) \o Lit(TarihliVe) \o Star(Space)
              \o NextRunText
        g2 == YearSlash \o Plus(Digit)
        g3 == Lit(<<T_CLOSE>>)
    IN  [els |-> g1 \o g2 \o g3,
         groups |-> <<1, Len(g1) + 1, Len(g1) + Len(g2) + 1>>]

replace_court_case_number(xml, case_value) ==
    replace_by_pattern_once(xml, court_case_pattern,
                            <<Ref(1), Txt(case_value), Ref(3)>>)

IsMahkemesi ==
    <<I_DOT_UP, S_CEDILLA_UP, " ", "M", "A", "H", "K", "E", "M", "E", "S",
      I_DOT_UP>>

\* (<w:t ..>)(\d+\.)(</w:t>...<w:t ..>\s*İŞ MAHKEMESİ\s*</w:t>)
court_number_pattern ==
    LET g1 == Lit(<<T_OPEN>>)
        g2 == Plus(Digit) \o Lit(<<".">>)
        g3 == NextRunText \o Star(Space) \o Lit(IsMahkemesi) \o Star(Space)
              \o Lit(<<T_CLOSE>>)
    IN  [els |-> g1 \o g2 \o g3,
         groups |-> <<1, Len(g1) + 1, Len(g1) + Len(g2) + 1>>]

replace_court_number(xml, court_no) ==
    LET matches == re_findall(court_number_pattern, xml)
    IN  IF Len(matches) # 1
        THEN Err("ValueError: expected once", Len(matches))
        ELSE Ok(re_sub_once(court_number_pattern,
                            <<Ref(1), Txt(court_no \o <<".">>), Ref(3)>>, xml))

(***************************************************************************)
(* bytes.decode("utf-8") and str.encode("utf-8").  Entry data is a         *)
(* sequence of bytes.  A byte below 0x80 is written as the character (or   *)
(* the tag, which stands for its run of ASCII bytes); a byte from 0x80 on  *)
(* is written as its two hexadecimal digits.  The characters outside       *)
(* ASCII that the texts hold are in U+0080..U+07FF, two bytes each; the    *)
(* entries hold no byte 0xE0..0xF4, the lead bytes of longer characters.   *)
(***************************************************************************)
HexDigits ==
    <<"0", "1", "2", "3", "4", "5", "6", "7", "8", "9", "A", "B", "C", "D", "E", "F">>

Hex(n) == HexDigits[n + 1]

HexValue(s, k) == CHOOSE n \in 0..15 : Hex(n) = SubSeq(s, k, k)

\* the name of the character with code point cp, and back
CharName(cp) ==
    "U+" \o Hex(cp \div 4096) \o Hex((cp \div 256) % 16) \o Hex((cp \div 16) % 16)
    \o Hex(cp % 16)

IsCharName(c) == Len(c) = 6 /\ SubSeq(c, 1, 2) = "U+"

CodePoint(c) ==
    4096 * HexValue(c, 3) + 256 * HexValue(c, 4) + 16 * HexValue(c, 5) + HexValue(c, 6)

ByteName(b) == Hex(b \div 16) \o Hex(b % 16)

IsHigh(b) == Len(b) = 2

ByteValue(b) == 16 * HexValue(b, 1) + HexValue(b, 2)

\* 110xxxxx 10xxxxxx: 0xC2..0xDF start a two-byte character (0xC0 and 0xC1
\* never occur in UTF-8), 0x80..0xBF continue one
IsLead(b) == IsHigh(b) /\ ByteValue(b) \in 194..223

IsCont(b) == IsHigh(b) /\ ByteValue(b) \in 128..191

Decoded(lead, cont) ==
    CharName((ByteValue(lead) - 192) * 64 + (ByteValue(cont) - 128))

\* str.encode("utf-8")
utf8_encode(text) ==
    LET units == [k \in 1..(2 * Len(text)) |->
                    LET c == text[(k + 1) \div 2]
                    IN  IF IsCharName(c)
                        THEN IF k % 2 = 1 THEN ByteName(192 + (CodePoint(c) \div 64))
                             ELSE ByteName(128 + (CodePoint(c) % 64))
                        ELSE IF k % 2 = 1 THEN c ELSE ""]
    IN  SelectSeq(units, LAMBDA u : u # "")

\* bytes.decode("utf-8"): a lead byte takes the continuation byte after it;
\* a lead byte without one, a continuation byte without a lead byte or
\* another byte from 0x80 on raises UnicodeDecodeError
utf8_decode(data) ==
    LET bad == {i \in 1..Len(data) :
                   \/ IsHigh(data[i]) /\ ~IsLead(data[i]) /\ ~IsCont(data[i])
                   \/ IsLead(data[i]) /\ (i = Len(data) \/ ~IsCont(data[i + 1]))
                   \/ IsCont(data[i]) /\ (i = 1 \/ ~IsLead(data[i - 1]))}
        chars == [i \in 1..Len(data) |->
                    IF IsLead(data[i]) THEN Decoded(data[i], data[i + 1])
                    ELSE IF IsCont(data[i]) THEN "" ELSE data[i]]
    IN  IF bad # {} THEN Err("UnicodeDecodeError", 0)
        ELSE Ok(SelectSeq(chars, LAMBDA c : c # ""))

(***************************************************************************)
(* update_docx_document_xml.  An archive is the sequence of its entries,   *)
(* each a name and its data; the arguments are the answers of the user     *)
(* and the current year.                                                   *)
(***************************************************************************)
DOCX_DOCUMENT_XML == "word/document.xml"

OldAdSoyad == <<"D", "o", G_BREVE, "u", "k", "a", "n", " ", "y", "u", "r", "t">>

OldTc == <<"1", "6", "2", "9", "1", "0", "9", "0", "5", "1", "4">>

\* the next step of the pipeline: an exception raised ends it
Then(r, step(_)) == IF r.ok THEN step(r.text) ELSE r

\* lines 253-262: the ten steps applied to the decoded markup, in order
transform_document_xml(xml, a) ==
    LET sirket_esas_value == a.current_year \o <<"/">> \o a.sirket_esas_no
        mahkeme_esas_value == a.current_year \o <<"/">> \o a.mahkeme_esas_no
        s1 == replace_exact_once(xml, OldAdSoyad, a.ad_soyad)
        s2 == Then(s1, LAMBDA x : replace_exact_once(x, OldTc, a.tc))
        s3 == Then(s2, LAMBDA x : replace_company_case_number(x, sirket_esas_value))
        s4 == Then(s3, LAMBDA x : replace_court_case_number(x, mahkeme_esas_value))
        s5 == Then(s4, LAMBDA x : replace_ilgi_date(x, a.mahkeme_tarihi))
        s6 == Then(s5, LAMBDA x : replace_header_date(x, a.evrak_tarihi))
        s7 == Then(s6, LAMBDA x : replace_court_number(x, a.court_no))
        s8 == Then(s7, LAMBDA x : tighten_header_date_position(x))
        s9 == Then(s8, LAMBDA x : Ok(normalize_justified_paragraphs(x)))
    IN  Then(s9, LAMBDA x : move_park_teknik_to_top(x))

\* line 252, lines 253-262, line 263
transform_data(data, a) ==
    Then(Then(utf8_decode(data), LAMBDA xml : transform_document_xml(xml, a)),
         LAMBDA xml : Ok(utf8_encode(xml)))

Entry(name, data) == [name |-> name, data |-> data]

\* ZipFile.read(name): the name is looked up in the archive's directory,
\* where a later entry of the same name has replaced an earlier one
zip_read(zin, name) ==
    zin[Max({i \in 1..Len(zin) : zin[i].name = name})].data

\* the outcome of a call: the exception raised, if any, and the archive
\* that stands at the output path when the call ends
Archived(zip) == [ok |-> TRUE, text |-> <<>>, err |-> "", n |-> 0, zip |-> zip]

Raised(err, zip) == [ok |-> FALSE, text |-> <<>>, err |-> err, n |-> 0, zip |-> zip]

\* lines 249-268 given data, the bytes computed for each entry or the
\* exception its transformation raises: entries are written up to the first
\* exception, and the check for the markup entry follows the loop
write_entries(zin, data) ==
    LET failed == {i \in 1..Len(zin) : ~data[i].ok}
        has_document_xml == \E i \in 1..Len(zin) : zin[i].name = DOCX_DOCUMENT_XML
        zout(n) == [i \in 1..n |-> Entry(zin[i].name, data[i].text)]
    IN  IF failed # {} THEN Raised(data[Min(failed)].err, zout(Min(failed) - 1))
        ELSE IF ~has_document_xml
        THEN Raised("RuntimeError: word/document.xml missing", zout(Len(zin)))
        ELSE Archived(zout(Len(zin)))

update_docx_document_xml(zin, a) ==
    write_entries(zin,
                  SubSeq([i \in 1..Len(zin) |->
                             IF zin[i].name = DOCX_DOCUMENT_XML
                             THEN transform_data(zip_read(zin, zin[i].name), a)
                             ELSE Ok(zip_read(zin, zin[i].name))], 1, Len(zin)))

(***************************************************************************)
(* Template markup with every field of the pipeline once, and variants     *)
(* that lack a field; archives of up to MaxEntries entries.                *)
(***************************************************************************)
TemplateParas ==
    [header  |-> HeaderLine("dot"),
     sayi    |-> Para(SayiRun \o RunOf(R_OPEN, <<":", " ", "1">>)),
     ilgi    |-> IlgiLine("slash"),
     person  |-> Para(RunOf(R_OPEN, OldAdSoyad) \o RunOf(R_OPEN_ATTR, OldTc)),
     court   |-> Para(RunOf(R_OPEN, <<"3", ".">>) \o <<"\n">>
                      \o RunOf(R_OPEN, <<" ">> \o IsMahkemesi)),
     company |-> Para(CaseFragment("single")),
     park    |-> Para(ParkRun)]

TemplateOrder == <<"header", "sayi", "ilgi", "person", "court", "company", "park">>

\* the template without the paragraphs named in lacking
TemplateDoc(lacking) ==
    <<DOC_OPEN, BODY_OPEN>>
    \o Flatten([i \in 1..Len(TemplateOrder) |->
                   IF TemplateOrder[i] \in lacking THEN <<>>
                   ELSE TemplateParas[TemplateOrder[i]]])
    \o <<SECT_PR, BODY_CLOSE, DOC_CLOSE>>

MarkupData ==
    {utf8_encode(TemplateDoc({})), utf8_encode(TemplateDoc({"park"})),
     utf8_encode(TemplateDoc({})) \o <<"C4">>}

StylesData == {<<"s", "1">>, <<"s", "9E">>}

EntryChoices ==
    {Entry(DOCX_DOCUMENT_XML, d) : d \in MarkupData}
    \cup {Entry("word/styles.xml", d) : d \in StylesData}

MaxEntries == 3

Answers ==
    {[ad_soyad |-> <<"A", "l", "i", " ", C_CEDILLA>>, tc |-> <<"1", "2">>,
      sirket_esas_no |-> <<"4", "1">>, mahkeme_esas_no |-> <<"7">>,
      mahkeme_tarihi |-> d, evrak_tarihi |-> <<"0", "2", "/", "0", "1", "/", "2", "0", "2", "6">>,
      court_no |-> <<"1", "2">>, current_year |-> <<"2", "0", "2", "6">>] : d \in NewDates}

InitArchive ==
    /\ pc = "start"
    /\ \E zin \in SeqsUpTo(EntryChoices, MaxEntries), a \in Answers :
          inp = [zin |-> zin, args |-> a]
    /\ mid = NoResult
    /\ out = NoResult
    /\ fs = {}
    /\ tmp = {}

UpdateDocxDocumentXml ==
    /\ pc = "start"
    /\ out' = update_docx_document_xml(inp.zin, inp.args)
    /\ pc' = "updated"
    /\ UNCHANGED <<inp, mid, fs, tmp>>

NextArchive == UpdateDocxDocumentXml

SpecArchive == InitArchive /\ [][NextArchive]_vars

\* C6: after a successful update_docx_document_xml the output archive holds
\* the entries of the input archive in the same order, every entry whose
\* name is not word/document.xml has the bytes of the corresponding input
\* entry, and an entry of that name has the transformed text of the
\* corresponding input entry.
C6_PassThrough ==
    pc = "updated" /\ out.ok =>
        /\ Len(out.zip) = Len(inp.zin)
        /\ \A i \in 1..Len(inp.zin) :
              /\ out.zip[i].name = inp.zin[i].name
              /\ IF inp.zin[i].name = DOCX_DOCUMENT_XML
                 THEN Ok(out.zip[i].data) = transform_data(inp.zin[i].data, inp.args)
                 ELSE out.zip[i].data = inp.zin[i].data

(***************************************************************************)
(* main and process_template.  The external converter (textutil, through   *)
(* run_command) either fails or produces its output; what it makes of a    *)
(* template is one of ConvertedArchives.  tmp is the activation of         *)
(* process_template with its temporary directory, fs the documents this    *)
(* run has written at output locations, out the way main returns.          *)
(***************************************************************************)
TEMPLATE_PATH == "muzekkere ustyazisi.DOC"

PUANTAJ_TEMPLATE_PATH == "puantaj ustyazisi.DOC"

\* the answers validate_yes_no accepts, lower case and stripped
YesNoAnswers == {"e", "evet", "h", "no"}

is_yes(value) == value \in {"e", "evet", "yes", "y"}

\* build_output_base_name: court number, year, case number and name
BaseName == "12. Is 2026-7 ali"

\* build_output_path: the document's name, beside its template; the name is
\* one that no file has yet (ensure_unique_output_path)
build_output_path(base_doc_path, base_name, kind_suffix) ==
    (IF kind_suffix = "" THEN base_name ELSE base_name \o " " \o kind_suffix) \o ".DOC"

ConvertedArchives ==
    LET styles == Entry("word/styles.xml", <<"s", "1">>)
    IN  {<<styles, Entry(DOCX_DOCUMENT_XML, utf8_encode(TemplateDoc({})))>>,
         <<Entry(DOCX_DOCUMENT_XML, utf8_encode(TemplateDoc({"park"}))), styles>>,
         <<styles>>}

NoActivation ==
    [template_path |-> "", output_doc |-> "", converted_docx |-> <<>>,
     updated_docx |-> <<>>]

\* process_template entered: the temporary directory is empty
Activation(template_path, output_doc) ==
    [template_path |-> template_path, output_doc |-> output_doc,
     converted_docx |-> <<>>, updated_docx |-> <<>>]

Returned(status, message, output_paths) ==
    [ok |-> status = 0, text |-> <<>>, err |-> message, n |-> status,
     output_paths |-> output_paths]

InitRun ==
    /\ pc = "main"
    /\ \E textutil \in BOOLEAN, templates \in SUBSET {TEMPLATE_PATH, PUANTAJ_TEMPLATE_PATH},
          a \in Answers, p \in YesNoAnswers :
          inp = [textutil |-> textutil, templates |-> templates, args |-> a,
                 produce_puantaj |-> p]
    /\ mid = NoResult
    /\ out = NoResult
    /\ fs = {}
    /\ tmp = NoActivation

\* main up to the first process_template: the checks of the environment,
\* the questions (their answers are inp.args) and the first output path
MainStart ==
    /\ pc = "main"
    /\ IF ~inp.textutil
       THEN /\ out' = Returned(1, "textutil missing", <<>>)
            /\ pc' = "exit"
            /\ UNCHANGED tmp
       ELSE IF {TEMPLATE_PATH, PUANTAJ_TEMPLATE_PATH} \ inp.templates # {}
       THEN /\ out' = Returned(1, "template missing", <<>>)
            /\ pc' = "exit"
            /\ UNCHANGED tmp
       ELSE /\ tmp' = Activation(TEMPLATE_PATH, build_output_path(TEMPLATE_PATH, BaseName, ""))
            /\ pc' = "to docx"
            /\ UNCHANGED out
    /\ UNCHANGED <<inp, mid, fs>>

\* an exception leaves process_template (its temporary directory is
\* removed) and main's handler prints it and returns 1
Failed(message) ==
    /\ tmp' = NoActivation
    /\ out' = Returned(1, message, <<>>)
    /\ pc' = "exit"
    /\ UNCHANGED <<inp, mid, fs>>

\* run_command(["textutil", "-convert", "docx", ...])
ConvertToDocx ==
    /\ pc = "to docx"
    /\ \/ Failed("RuntimeError: command failed")
       \/ \E zip \in ConvertedArchives :
             /\ tmp' = [tmp EXCEPT !.converted_docx = zip]
             /\ pc' = "update"
             /\ UNCHANGED <<inp, mid, out, fs>>

\* process_template after update_docx_document_xml has returned or raised
Updated(r) ==
    IF r.ok
    THEN /\ tmp' = [tmp EXCEPT !.updated_docx = r.zip]
         /\ pc' = "to doc"
         /\ UNCHANGED <<inp, mid, out, fs>>
    ELSE Failed(r.err)

\* update_docx_document_xml(converted_docx, updated_docx, ...)
UpdateDocx ==
    /\ pc = "update"
    /\ Updated(update_docx_document_xml(tmp.converted_docx, inp.args))

\* run_command(["textutil", "-convert", "doc", "-output", output_doc, ...]),
\* the return of process_template and main up to the next process_template
\* or its end
ConvertToDoc ==
    /\ pc = "to doc"
    /\ \/ Failed("RuntimeError: command failed")
       \/ /\ fs' = fs \cup {[path |-> tmp.output_doc, from |-> tmp.updated_docx]}
          /\ IF tmp.template_path = TEMPLATE_PATH /\ is_yes(inp.produce_puantaj)
             THEN /\ tmp' = Activation(PUANTAJ_TEMPLATE_PATH,
                                       build_output_path(PUANTAJ_TEMPLATE_PATH, BaseName, "puantaj"))
                  /\ pc' = "to docx"
                  /\ UNCHANGED out
             ELSE /\ tmp' = NoActivation
                  /\ out' = Returned(0, "",
                                IF tmp.template_path = TEMPLATE_PATH
                                THEN <<tmp.output_doc>>
                                ELSE <<build_output_path(TEMPLATE_PATH, BaseName, ""), tmp.output_doc>>)
                  /\ pc' = "exit"
          /\ UNCHANGED <<inp, mid>>

NextRun == MainStart \/ ConvertToDocx \/ UpdateDocx \/ ConvertToDoc

SpecRun == InitRun /\ [][NextRun]_vars

\* C5: a run in which a step has failed returns a non-zero status and has
\* written no document at any output location.
C5_NoPartialOutput ==
    pc = "exit" /\ out.err # "" => out.n # 0 /\ fs = {}

====
